---- MODULE Spec2Model ----
(***************************************************************************)
(* Frame loop, frame synchronisation and swapchain recreation of the       *)
(* HelloTriangleApplication.  src/unnamed/part_002 and                     *)
(* src/archives/hello_triangle_8.cpp hold the same mainLoop, drawFrame and *)
(* recreateSwapChain; the latter adds updateUniformBuffer between the      *)
(* recording and the submission, and that is the drawFrame modelled here.  *)
(* One CPU thread runs mainLoop/drawFrame/recreateSwapChain;               *)
(* the graphics queue and the presentation queue run concurrently to it    *)
(* and are coordinated only through fences and binary semaphores.          *)
(***************************************************************************)
EXTENDS Integers, Sequences, FiniteSets, TLC

\* const int MAX_FRAMES_IN_FLIGHT = 2;
MAX_FRAMES_IN_FLIGHT == 2

\* number of images the swapchain holds (minImageCount + 1 on the device)
NumImages == 3

Slots == 0 .. (MAX_FRAMES_IN_FLIGHT - 1)
Images == 0 .. (NumImages - 1)

\* framebuffer sizes the windowing layer can report; <<0,0>> is "minimized"
WIDTH == 800
HEIGHT == 600
ZeroSize == <<0, 0>>
Sizes == {ZeroSize, <<WIDTH, HEIGHT>>, <<640, 480>>}

\* VkResult values that drawFrame distinguishes
VK_SUCCESS == "VK_SUCCESS"
VK_SUBOPTIMAL_KHR == "VK_SUBOPTIMAL_KHR"
VK_ERROR_OUT_OF_DATE_KHR == "VK_ERROR_OUT_OF_DATE_KHR"
VK_ERROR_OTHER == "VK_ERROR_OTHER"
VkResults == {VK_SUCCESS, VK_SUBOPTIMAL_KHR, VK_ERROR_OUT_OF_DATE_KHR, VK_ERROR_OTHER}

\* an index no slot has (VK_NULL_HANDLE where a fence or semaphore is meant)
NoSlot == MAX_FRAMES_IN_FLIGHT
\* the value of imageIndex before vkAcquireNextImageKHR has written it
NoImage == NumImages
NoResult == "none"
NoSize == <<-1, -1>>
NoEntry == "none"

VARIABLES
    pc,                 \* position of the CPU thread
    currentFrame_,      \* uint32_t currentFrame_
    framebufferResized_,\* bool framebufferResized_
    inFlightFences_,    \* slot -> "signaled" | "unsignaled"
    imageAvailableSemaphores_, \* slot -> BOOLEAN (binary semaphore signaled)
    renderFinishedSemaphores_, \* slot -> BOOLEAN
    commandBuffers_,    \* slot -> [state, descriptorSet] of the command buffer
    imageIndex,         \* local of drawFrame
    width,              \* locals width/height of recreateSwapChain
    rcCaller,           \* which call site of recreateSwapChain is active
    swapChainExtent_,   \* VkExtent2D swapChainExtent_
    chainAlive,         \* swapchain, views and framebuffers exist
    swapChainImages_,   \* number of images of the existing swapchain
    swapChainImageViews_,   \* number of image views that exist
    swapChainFramebuffers_, \* number of framebuffers that exist
    capabilities,       \* VkSurfaceCapabilitiesKHR of the latest query
    createInfo,         \* VkSwapchainCreateInfoKHR of the latest creation
    queueFamilies,      \* VkQueueFamilyProperties of the physical device, with
                        \* the presentation support of each family
    indices,            \* QueueFamilyIndices found for that device
    destroyed,          \* the objects destroyed and not created again, in the
                        \* order of their destruction
    imageState,         \* image -> "free" | "acquired" | "queued"
    graphicsQueue_,     \* submissions accepted and not yet completed
    presentationQueue_, \* present requests accepted and not yet processed
    fbSize,             \* what glfwGetFramebufferSize reports
    shouldClose,        \* glfwWindowShouldClose
    exitCode,           \* process exit status, -1 while running
    iterOps,            \* history: operations of the current drawFrame call
    uniformBufferWritten, \* history: index of the uniform buffer written by
                        \* the updateUniformBuffer of this call, until the submit
    recreateEntry,      \* history: the state of the fence of the current slot
                        \* when the running recreateSwapChain was entered
    iterSlot,           \* history: currentFrame_ when drawFrame was entered
    iterFence,          \* history: fence of that slot when drawFrame was entered
                        \* (kept while the call can still return early)
    acquireResult,      \* history: what the acquire of this call returned
    lastSubmit,         \* history: slot of the latest accepted submission
    prevSubmit,         \* history: slot of the one before
    presentResult       \* history: what vkQueuePresentKHR returned, while
                        \* drawFrame tests it

chainVars == <<swapChainImages_, swapChainImageViews_, swapChainFramebuffers_,
               capabilities, createInfo>>

deviceVars == <<queueFamilies, indices>>

vars == <<pc, currentFrame_, framebufferResized_, inFlightFences_,
          imageAvailableSemaphores_, renderFinishedSemaphores_, commandBuffers_,
          imageIndex, width, rcCaller, swapChainExtent_, chainAlive, destroyed,
          chainVars, deviceVars,
          imageState, graphicsQueue_, presentationQueue_, fbSize, shouldClose,
          exitCode, iterOps, uniformBufferWritten, recreateEntry, iterSlot, iterFence, acquireResult, lastSubmit,
          prevSubmit, presentResult>>

cpuVars == <<currentFrame_, framebufferResized_, commandBuffers_, imageIndex,
             width, rcCaller, swapChainExtent_, chainAlive, destroyed, chainVars,
             deviceVars>>
gpuVars == <<inFlightFences_, imageAvailableSemaphores_,
             renderFinishedSemaphores_, imageState, graphicsQueue_,
             presentationQueue_>>
winVars == <<fbSize, shouldClose>>
histVars == <<iterOps, uniformBufferWritten, recreateEntry, iterSlot, iterFence, acquireResult, lastSubmit, prevSubmit,
              presentResult>>

----
\* createCommandBuffers: MAX_FRAMES_IN_FLIGHT primary buffers, nothing recorded
InitialCommandBuffer ==
    [state |-> "initial", commands |-> <<>>, framebuffer |-> NoImage,
     renderArea |-> NoSize, viewport |-> NoSize, scissor |-> NoSize,
     descriptorSet |-> NoSlot]

\* recordCommandBuffer: what the recorded buffer refers to per slot; the
\* uniform-buffer variant binds descriptorSets_[currentFrame_], which points
\* at uniformBuffers_[currentFrame_]
\* variant: viewport, scissor and render area keep the extent of the first
\* chain
recordCommandBufferInitialExtent(slot, image) ==
    [state |-> "recorded",
     commands |-> <<"begin", "beginRenderPass", "bindPipeline",
                    "bindVertexBuffers", "bindIndexBuffer", "setViewport",
                    "setScissor", "bindDescriptorSets", "drawIndexed",
                    "endRenderPass", "end">>,
     framebuffer |-> image,
     renderArea |-> <<WIDTH, HEIGHT>>,
     viewport |-> <<WIDTH, HEIGHT>>,
     scissor |-> <<WIDTH, HEIGHT>>,
     descriptorSet |-> slot]

\* The commands are those of the function, in its order; the render pass
\* begins on swapChainFramebuffers_[imageIndex] with renderArea.extent =
\* swapChainExtent_, and viewport and scissor are set from swapChainExtent_.
recordCommandBuffer(slot, image) ==
    [state |-> "recorded",
     commands |-> <<"begin", "beginRenderPass", "bindPipeline",
                    "bindVertexBuffers", "bindIndexBuffer", "setViewport",
                    "setScissor", "bindDescriptorSets", "drawIndexed",
                    "endRenderPass", "end">>,
     framebuffer |-> image,
     renderArea |-> swapChainExtent_,
     viewport |-> swapChainExtent_,
     scissor |-> swapChainExtent_,
     descriptorSet |-> slot]

\* variant: the fences created without VK_FENCE_CREATE_SIGNALED_BIT
createSyncObjectsUnsignaled ==
    [fence |-> [s \in Slots |-> "unsignaled"],
     imageAvailable |-> [s \in Slots |-> FALSE],
     renderFinished |-> [s \in Slots |-> FALSE]]

\* createSyncObjects: fences are created with VK_FENCE_CREATE_SIGNALED_BIT,
\* semaphores unsignaled
createSyncObjects ==
    [fence |-> [s \in Slots |-> "signaled"],
     imageAvailable |-> [s \in Slots |-> FALSE],
     renderFinished |-> [s \in Slots |-> FALSE]]

\* std::numeric_limits<uint32_t>::max(), for unsigned words scaled down to
\* 16 bits
UINT32_MAX == 65535

\* static_cast<uint32_t>(x)
ToUint32(x) == x % (UINT32_MAX + 1)

\* std::clamp(v, lo, hi)
clamp(v, lo, hi) == IF v < lo THEN lo ELSE IF hi < v THEN hi ELSE v

\* variant: the framebuffer size is taken as it is
chooseSwapExtentNoClamp(caps, fb) ==
    IF caps.currentExtent[1] # UINT32_MAX
    THEN caps.currentExtent
    ELSE <<ToUint32(fb[1]), ToUint32(fb[2])>>

\* chooseSwapExtent: the current extent of the surface unless its width is
\* the special value, else the framebuffer size of the window clamped to
\* the extents the surface allows
chooseSwapExtent(caps, fb) ==
    IF caps.currentExtent[1] # UINT32_MAX
    THEN caps.currentExtent
    ELSE <<clamp(ToUint32(fb[1]), caps.minImageExtent[1], caps.maxImageExtent[1]),
           clamp(ToUint32(fb[2]), caps.minImageExtent[2], caps.maxImageExtent[2])>>

\* variant: the maximum is applied even when it is 0
imageCountAlwaysCapped(caps) ==
    LET n == ToUint32(caps.minImageCount + 1)
    IN  IF n > caps.maxImageCount THEN caps.maxImageCount ELSE n

\* createSwapChain: uint32_t imageCount = minImageCount + 1, lowered to
\* maxImageCount when that is not 0 and is exceeded
imageCount(caps) ==
    LET n == ToUint32(caps.minImageCount + 1)
    IN  IF caps.maxImageCount > 0 /\ n > caps.maxImageCount
        THEN caps.maxImageCount
        ELSE n

\* std::optional<uint32_t>
nullopt == [has_value |-> FALSE, value |-> 0]
optional(v) == [has_value |-> TRUE, value |-> v]

\* QueueFamilyIndices::isComplete
isComplete(ind) ==
    ind.graphicsFamily.has_value /\ ind.presentationFamily.has_value

\* variant: the presentation family is looked for on its own, the first
\* family that can present to the surface
findQueueFamiliesSeparate(families) ==
    LET first(S) == IF S = {} THEN nullopt
                    ELSE optional(CHOOSE i \in S : \A j \in S : i <= j)
        all == 0 .. Len(families) - 1
    IN  [graphicsFamily |-> first({i \in all : families[i + 1].graphics}),
         presentationFamily |-> first({i \in all : families[i + 1].present})]

\* findQueueFamilies: the loop over the families from index i on; at the first
\* family with VK_QUEUE_GRAPHICS_BIT the presentation support of that family
\* is asked, both indices are assigned from i and the loop is left
RECURSIVE findQueueFamiliesFrom(_, _, _)
findQueueFamiliesFrom(families, i, ind) ==
    IF i >= Len(families) THEN ind
    ELSE LET queueFamily == families[i + 1]
         IN  IF queueFamily.graphics
             THEN [graphicsFamily |-> optional(ToUint32(i)),
                   presentationFamily |->
                        IF queueFamily.present THEN optional(ToUint32(i))
                        ELSE ind.presentationFamily]
             ELSE findQueueFamiliesFrom(families, i + 1, ind)

\* findQueueFamilies: both indices start empty, int i = 0
findQueueFamilies(families) ==
    findQueueFamiliesFrom(families, 0,
        [graphicsFamily |-> nullopt, presentationFamily |-> nullopt])

\* createSwapChain: concurrent sharing when the two families differ,
\* exclusive otherwise
imageSharingMode(ind) ==
    IF ind.graphicsFamily # ind.presentationFamily
    THEN "VK_SHARING_MODE_CONCURRENT"
    ELSE "VK_SHARING_MODE_EXCLUSIVE"

\* the physical device picked by pickPhysicalDevice: one family that does
\* graphics and can present to the surface
PickedQueueFamilies == <<[graphics |-> TRUE, present |-> TRUE]>>

\* createSwapChain: the fields of createInfo computed from the capabilities
\* and from the queue family indices
SwapchainCreateInfo(caps, fb, ind) ==
    [minImageCount |-> imageCount(caps),
     imageExtent |-> chooseSwapExtent(caps, fb),
     imageSharingMode |-> imageSharingMode(ind)]

\* createSwapChain: querySwapChainSupport for a surface that follows its
\* window: the current extent is the framebuffer size, and the images the
\* chain gets are those asked for
querySwapChainSupport(size) ==
    [currentExtent |-> size, minImageExtent |-> size, maxImageExtent |-> size,
     minImageCount |-> NumImages - 1, maxImageCount |-> 0]

\* createImageViews: one view for each image of the swapchain
createImageViews(images) == images

\* variant: one framebuffer for each frame in flight
createFramebuffersPerFrame(views) == MAX_FRAMES_IN_FLIGHT

\* createFramebuffers: one framebuffer for each image view
createFramebuffers(views) == views

\* what exists when a creation call of createSwapChain, createImageViews or
\* createFramebuffers fails and the function throws: no swapchain, or the
\* swapchain with the views created before the failing one, or the
\* swapchain with all views and the framebuffers created before the failing
\* one
CreationFailures ==
    {[images |-> 0, views |-> 0, framebuffers |-> 0]}
    \cup {[images |-> NumImages, views |-> k, framebuffers |-> 0] :
                k \in 0 .. NumImages - 1}
    \cup {[images |-> NumImages, views |-> NumImages, framebuffers |-> k] :
                k \in 0 .. NumImages - 1}

Init ==
    /\ pc = "mainLoop"
    /\ currentFrame_ = 0
    /\ framebufferResized_ = FALSE
    /\ inFlightFences_ = createSyncObjects.fence
    /\ imageAvailableSemaphores_ = createSyncObjects.imageAvailable
    /\ renderFinishedSemaphores_ = createSyncObjects.renderFinished
    /\ commandBuffers_ = [s \in Slots |-> InitialCommandBuffer]
    /\ imageIndex = NoImage
    /\ width = ZeroSize
    /\ rcCaller = "none"
    /\ swapChainExtent_ = <<WIDTH, HEIGHT>>
    /\ chainAlive = TRUE
    /\ capabilities = querySwapChainSupport(<<WIDTH, HEIGHT>>)
    /\ queueFamilies = PickedQueueFamilies
    /\ indices = findQueueFamilies(queueFamilies)
    /\ createInfo = SwapchainCreateInfo(capabilities, <<WIDTH, HEIGHT>>, indices)
    /\ swapChainImages_ = createInfo.minImageCount
    /\ swapChainImageViews_ = createImageViews(swapChainImages_)
    /\ swapChainFramebuffers_ = createFramebuffers(swapChainImageViews_)
    /\ destroyed = <<>>
    /\ imageState = [i \in Images |-> "free"]
    /\ graphicsQueue_ = <<>>
    /\ presentationQueue_ = <<>>
    /\ fbSize = <<WIDTH, HEIGHT>>
    /\ shouldClose = FALSE
    /\ exitCode = -1
    /\ iterOps = <<>>
    /\ iterSlot = 0
    /\ uniformBufferWritten = NoSlot
    /\ recreateEntry = NoEntry
    /\ iterFence = "signaled"
    /\ acquireResult = NoResult
    /\ lastSubmit = NoSlot
    /\ prevSubmit = NoSlot
    /\ presentResult = NoResult

----
\* variant: no size counts as zero
IsZeroNever(sz) == FALSE

\* recreateSwapChain: width == 0 || height == 0
IsZero(sz) == sz[1] = 0 \/ sz[2] = 0

Log(ops) == iterOps \o ops

\* framebufferResizeCallback: app->framebufferResized_ = true
framebufferResizeCallback(flag) == TRUE

\* Event processing of the windowing layer (glfwPollEvents, glfwWaitEvents):
\* a framebuffer-size event changes the reported size and runs the callback,
\* a close event sets the should-close flag.  newSize = NoSize: no size event.
ProcessEvents(newSize, close) ==
    /\ fbSize' = IF newSize = NoSize THEN fbSize ELSE newSize
    /\ framebufferResized_' = IF newSize = NoSize THEN framebufferResized_
                              ELSE framebufferResizeCallback(framebufferResized_)
    /\ shouldClose' = (shouldClose \/ close)

EventSizes == Sizes \cup {NoSize}

\* mainLoop: while (!glfwWindowShouldClose(window_))
MainLoopTest ==
    /\ pc = "mainLoop"
    /\ pc' = IF shouldClose THEN "mainLoopWaitIdle" ELSE "pollEvents"
    /\ UNCHANGED <<cpuVars, gpuVars, winVars, exitCode, histVars>>

\* mainLoop: glfwPollEvents(); then drawFrame() is entered
PollEvents ==
    /\ pc = "pollEvents"
    /\ \E newSize \in EventSizes, close \in BOOLEAN : ProcessEvents(newSize, close)
    /\ pc' = "waitForFences"
    /\ iterOps' = <<>>
    /\ iterSlot' = currentFrame_
    /\ iterFence' = inFlightFences_[currentFrame_]
    /\ acquireResult' = NoResult
    /\ presentResult' = NoResult
    /\ UNCHANGED <<currentFrame_, commandBuffers_, imageIndex,
                   width, rcCaller, swapChainExtent_, chainAlive, destroyed, chainVars, gpuVars,
                   exitCode, lastSubmit, prevSubmit, uniformBufferWritten,
                   recreateEntry, deviceVars>>

\* variant: the wait does not block (a zero timeout)
FenceWaitNoBlock(slot) == TRUE

\* drawFrame: vkWaitForFences(&inFlightFences_[currentFrame_], UINT64_MAX)
FenceWaitReturns(slot) == inFlightFences_[slot] = "signaled"

\* variant: vkResetFences right after the wait, before the acquire (the
\* order of the drawFrame of src/hello_triangle_2.cpp)
WaitForFencesThenReset ==
    /\ pc = "waitForFences"
    /\ FenceWaitReturns(currentFrame_)
    /\ inFlightFences_' = [inFlightFences_ EXCEPT ![currentFrame_] = "unsignaled"]
    /\ pc' = "acquireNextImage"
    /\ iterOps' = Log(<<"wait">>)
    /\ UNCHANGED <<cpuVars, imageAvailableSemaphores_, renderFinishedSemaphores_,
                   imageState, graphicsQueue_, presentationQueue_,
                   winVars, exitCode, iterSlot, recreateEntry, uniformBufferWritten, iterFence, acquireResult,
                   lastSubmit, prevSubmit, presentResult>>

WaitForFences ==
    /\ pc = "waitForFences"
    /\ FenceWaitReturns(currentFrame_)
    /\ pc' = "acquireNextImage"
    /\ iterOps' = Log(<<"wait">>)
    /\ UNCHANGED <<cpuVars, gpuVars, winVars, exitCode, iterSlot, recreateEntry, uniformBufferWritten,
                   iterFence, acquireResult, lastSubmit, prevSubmit, presentResult>>

\* variant: the stale result is not told from success
AfterAcquireIgnoresStale(r) ==
    IF r # VK_SUCCESS /\ r # VK_SUBOPTIMAL_KHR /\ r # VK_ERROR_OUT_OF_DATE_KHR
    THEN "thrown"
    ELSE "resetFences"

\* variant: only the stale result is told from success
AfterAcquireErrorAsSuccess(r) ==
    IF r = VK_ERROR_OUT_OF_DATE_KHR THEN "recreateSwapChain" ELSE "resetFences"

\* where drawFrame goes after vkAcquireNextImageKHR returned r
AfterAcquire(r) ==
    IF r = VK_ERROR_OUT_OF_DATE_KHR THEN "recreateSwapChain"
    ELSE IF r # VK_SUCCESS /\ r # VK_SUBOPTIMAL_KHR THEN "thrown"
    ELSE "resetFences"

\* variant: the branch of the stale acquire clears the flag as the branch
\* of the present does
ResizedAfterAcquireCleared(r, resized) ==
    IF r = VK_ERROR_OUT_OF_DATE_KHR THEN FALSE ELSE resized

\* drawFrame: framebufferResized_ after the test of the acquire result, whose
\* branches do not assign it
ResizedAfterAcquire(r, resized) == resized

\* drawFrame: vkAcquireNextImageKHR(..., imageAvailableSemaphores_[currentFrame_], ...)
\* and the test of its result.  An image is handed out only when the
\* presentation engine has one free (the call has no timeout); the semaphore
\* is signaled for the two results that hand out an image.
AcquireNextImage ==
    /\ pc = "acquireNextImage"
    /\ \E r \in VkResults :
        /\ acquireResult' = r
        /\ framebufferResized_' = ResizedAfterAcquire(r, framebufferResized_)
        /\ iterFence' = IF r = VK_ERROR_OUT_OF_DATE_KHR THEN iterFence ELSE "signaled"
        /\ pc' = AfterAcquire(r)
        /\ rcCaller' = IF AfterAcquire(r) = "recreateSwapChain" THEN "acquire" ELSE rcCaller
        /\ IF r \in {VK_SUCCESS, VK_SUBOPTIMAL_KHR}
           THEN \E i \in Images :
                  /\ imageState[i] = "free"
                  /\ imageIndex' = i
                  /\ imageState' = [imageState EXCEPT ![i] = "acquired"]
                  /\ imageAvailableSemaphores_' =
                        [imageAvailableSemaphores_ EXCEPT ![currentFrame_] = TRUE]
           ELSE UNCHANGED <<imageIndex, imageState, imageAvailableSemaphores_, deviceVars>>
    /\ iterOps' = Log(<<"acquire">>)
    /\ UNCHANGED <<currentFrame_, commandBuffers_,
                   width, swapChainExtent_, chainAlive, destroyed, chainVars, inFlightFences_,
                   renderFinishedSemaphores_, graphicsQueue_, presentationQueue_,
                   winVars, exitCode, iterSlot, recreateEntry, uniformBufferWritten,
                   lastSubmit, prevSubmit, presentResult, deviceVars>>

\* drawFrame: vkResetFences(&inFlightFences_[currentFrame_])
ResetFences ==
    /\ pc = "resetFences"
    /\ inFlightFences_' = [inFlightFences_ EXCEPT ![currentFrame_] = "unsignaled"]
    /\ pc' = "recordCommandBuffer"
    /\ iterOps' = Log(<<"resetFence">>)
    /\ UNCHANGED <<cpuVars, imageAvailableSemaphores_,
                   renderFinishedSemaphores_, imageState, graphicsQueue_,
                   presentationQueue_, winVars, exitCode,
                   iterSlot, recreateEntry, uniformBufferWritten, iterFence, acquireResult, lastSubmit, prevSubmit, presentResult>>

\* drawFrame: vkResetCommandBuffer(commandBuffers_[currentFrame_]) and
\* recordCommandBuffer(commandBuffers_[currentFrame_], imageIndex), which
\* throws when vkBeginCommandBuffer or vkEndCommandBuffer fails
RecordCommandBuffer ==
    /\ pc = "recordCommandBuffer"
    /\ \E ok \in BOOLEAN :
        IF ok
        THEN /\ commandBuffers_' = [commandBuffers_ EXCEPT
                                        ![currentFrame_] =
                                            recordCommandBuffer(currentFrame_, imageIndex)]
             /\ pc' = "updateUniformBuffer"
        ELSE /\ commandBuffers_' = [commandBuffers_ EXCEPT
                                        ![currentFrame_] = InitialCommandBuffer]
             /\ pc' = "thrown"
    /\ iterOps' = Log(<<"resetCmd", "record">>)
    /\ UNCHANGED <<currentFrame_, framebufferResized_, imageIndex,
                   width, rcCaller, swapChainExtent_, chainAlive, destroyed, chainVars, gpuVars, winVars,
                   exitCode, iterSlot, recreateEntry, uniformBufferWritten, iterFence, acquireResult, lastSubmit, prevSubmit, presentResult, deviceVars>>

\* variant: the uniform buffer of the other slot is written
updateUniformBufferNext(currentImage) == (currentImage + 1) % MAX_FRAMES_IN_FLIGHT

\* updateUniformBuffer: memcpy(uniformBuffersMapped_[currentImage], &ubo,
\* sizeof(ubo)); the index of the buffer written
updateUniformBuffer(currentImage) == currentImage

\* drawFrame (hello_triangle_8): updateUniformBuffer(currentFrame_), a memcpy
\* into the mapped uniform buffer of the slot
UpdateUniformBuffer ==
    /\ pc = "updateUniformBuffer"
    /\ pc' = "queueSubmit"
    /\ iterOps' = Log(<<"ubo">>)
    /\ uniformBufferWritten' = updateUniformBuffer(currentFrame_)
    /\ UNCHANGED <<cpuVars, gpuVars, winVars, exitCode, iterSlot, recreateEntry,
                   iterFence, acquireResult, lastSubmit, prevSubmit, presentResult>>

\* variant: VK_NULL_HANDLE passed as the fence of the submission
SubmitInfoNoFence(slot, image) ==
    [image |-> image, waitSem |-> slot, cmdBuf |-> slot, signalSem |-> slot,
     fence |-> NoSlot]

\* variant: the first command buffer submitted whatever the slot
SubmitInfoFirstCmdBuf(slot, image) ==
    [image |-> image, waitSem |-> slot, cmdBuf |-> 0, signalSem |-> slot,
     fence |-> slot]

\* variant: the submission waits on the other slot's image-available semaphore
SubmitInfoWaitsOtherSemaphore(slot, image) ==
    [image |-> image, waitSem |-> (slot + 1) % MAX_FRAMES_IN_FLIGHT,
     cmdBuf |-> slot, signalSem |-> slot, fence |-> slot]

\* the VkSubmitInfo and the fence drawFrame hands to vkQueueSubmit
\* (pWaitSemaphores, pCommandBuffers, pSignalSemaphores, fence), and the
\* swapchain image the recorded render pass writes
SubmitInfo(slot, image) ==
    [image |-> image, waitSem |-> slot, cmdBuf |-> slot, signalSem |-> slot,
     fence |-> slot]

\* drawFrame: vkQueueSubmit(graphicsQueue_, 1, &submitInfo, inFlightFences_[currentFrame_])
QueueSubmit ==
    /\ pc = "queueSubmit"
    /\ \E ok \in BOOLEAN :
        IF ok
        THEN /\ graphicsQueue_' = Append(graphicsQueue_, SubmitInfo(currentFrame_, imageIndex))
             /\ prevSubmit' = lastSubmit
             /\ lastSubmit' = currentFrame_
             /\ iterOps' = Log(<<"submit">>)
             /\ pc' = "queuePresent"
        ELSE /\ UNCHANGED <<graphicsQueue_, prevSubmit, lastSubmit, iterOps, deviceVars>>
             /\ pc' = "thrown"
    /\ uniformBufferWritten' = NoSlot
    /\ UNCHANGED <<cpuVars, inFlightFences_, imageAvailableSemaphores_,
                   renderFinishedSemaphores_, imageState, presentationQueue_,
                   winVars, exitCode, iterSlot, recreateEntry, iterFence,
                   acquireResult, presentResult>>

\* variant: the first image of the chain is presented
PresentInfoFirstImage(slot, image) == [image |-> 0, waitSem |-> slot]

\* the VkPresentInfoKHR of drawFrame: pWaitSemaphores = signalSemaphores
PresentInfo(slot, image) == [image |-> image, waitSem |-> slot]

\* variant: the test after vkQueuePresentKHR does not look at the flag
NeedsRecreateIgnoresResize(r, resized) ==
    r = VK_ERROR_OUT_OF_DATE_KHR \/ r = VK_SUBOPTIMAL_KHR

\* drawFrame: the test after vkQueuePresentKHR
NeedsRecreate(r, resized) ==
    r = VK_ERROR_OUT_OF_DATE_KHR \/ r = VK_SUBOPTIMAL_KHR \/ resized

AfterPresent(r, resized) ==
    IF NeedsRecreate(r, resized) THEN "recreateSwapChain"
    ELSE IF r # VK_SUCCESS THEN "thrown"
    ELSE "advance"

\* drawFrame: result = vkQueuePresentKHR(presentationQueue_, &presentInfo) and
\* the test of the result.  The request (with its semaphore wait) is queued
\* for every result but a hard error, where either may happen.
QueuePresent ==
    /\ pc = "queuePresent"
    /\ \E r \in VkResults, queued \in BOOLEAN :
        /\ (r # VK_ERROR_OTHER) => queued
        /\ IF queued
           THEN /\ presentationQueue_' =
                      Append(presentationQueue_, PresentInfo(currentFrame_, imageIndex))
                /\ imageState' = [imageState EXCEPT ![imageIndex] = "queued"]
           ELSE UNCHANGED <<presentationQueue_, imageState, deviceVars>>
        /\ pc' = AfterPresent(r, framebufferResized_)
        /\ presentResult' = r
        /\ IF NeedsRecreate(r, framebufferResized_)
           THEN /\ framebufferResized_' = FALSE
                /\ rcCaller' = "present"
                /\ iterOps' = Log(<<"present", "clearResized">>)
           ELSE /\ UNCHANGED <<framebufferResized_, rcCaller, deviceVars>>
                /\ iterOps' = Log(<<"present">>)
    /\ UNCHANGED <<currentFrame_, commandBuffers_, imageIndex, width,
                   swapChainExtent_, chainAlive, destroyed, chainVars, inFlightFences_,
                   imageAvailableSemaphores_, renderFinishedSemaphores_,
                   graphicsQueue_, fbSize, shouldClose, exitCode,
                   iterSlot, recreateEntry, uniformBufferWritten, iterFence, acquireResult, lastSubmit, prevSubmit, deviceVars>>

\* variant: the index is never advanced
NextFrameStuck(cf) == cf

\* drawFrame: currentFrame_ = (currentFrame_ + 1) % MAX_FRAMES_IN_FLIGHT
NextFrame(cf) == (cf + 1) % MAX_FRAMES_IN_FLIGHT

AdvanceFrame ==
    /\ pc = "advance"
    /\ currentFrame_' = NextFrame(currentFrame_)
    /\ pc' = "mainLoop"
    /\ iterOps' = Log(<<"advance">>)
    /\ imageIndex' = NoImage
    /\ presentResult' = NoResult
    /\ UNCHANGED <<framebufferResized_, commandBuffers_,
                   width, rcCaller, swapChainExtent_, chainAlive, destroyed, chainVars, gpuVars,
                   winVars, exitCode, iterSlot, recreateEntry, uniformBufferWritten, iterFence, acquireResult,
                   lastSubmit, prevSubmit, deviceVars>>


\* recreateSwapChain: int width = 0, height = 0;
\* glfwGetFramebufferSize(window_, &width, &height); and the first loop test
RecreateGetSize ==
    /\ pc = "recreateSwapChain"
    /\ width' = fbSize
    /\ pc' = IF IsZero(fbSize) THEN "recreateLoopBody" ELSE "recreateWaitIdle"
    /\ iterOps' = IF IsZero(fbSize) THEN Log(<<"zeroSize">>) ELSE iterOps
    /\ presentResult' = NoResult
    /\ recreateEntry' = inFlightFences_[currentFrame_]
    /\ UNCHANGED <<currentFrame_, framebufferResized_, commandBuffers_,
                   imageIndex, rcCaller, swapChainExtent_, chainAlive, destroyed, chainVars,
                   gpuVars, winVars, exitCode, iterSlot, uniformBufferWritten, iterFence,
                   acquireResult, lastSubmit, prevSubmit, deviceVars>>

\* variant: the loop is left when the window is to be closed
RecreateLoopBodyLeavesOnClose ==
    /\ pc = "recreateLoopBody"
    /\ width' = fbSize
    /\ \E newSize \in EventSizes, close \in BOOLEAN : ProcessEvents(newSize, close)
    /\ pc' = IF shouldClose' THEN "mainLoopWaitIdle"
             ELSE IF IsZero(width') THEN "recreateLoopBody" ELSE "recreateWaitIdle"
    /\ UNCHANGED <<currentFrame_, commandBuffers_, imageIndex,
                   rcCaller, swapChainExtent_, chainAlive, destroyed, chainVars, gpuVars,
                   exitCode, histVars, deviceVars>>

\* recreateSwapChain, one turn of the loop:
\*   glfwGetFramebufferSize(window_, &width, &height); glfwWaitEvents();
\* and the loop test, which looks at the size read before the events
RecreateLoopBody ==
    /\ pc = "recreateLoopBody"
    /\ width' = fbSize
    /\ \E newSize \in EventSizes, close \in BOOLEAN : ProcessEvents(newSize, close)
    /\ pc' = IF IsZero(width') THEN "recreateLoopBody" ELSE "recreateWaitIdle"
    /\ UNCHANGED <<currentFrame_, commandBuffers_, imageIndex,
                   rcCaller, swapChainExtent_, chainAlive, destroyed, chainVars, gpuVars, exitCode,
                   histVars, deviceVars>>

\* variant: the device-idle wait returns at once
DeviceIdleNoWait == TRUE

\* vkDeviceWaitIdle returns when every queue of the device has drained
DeviceIdle == graphicsQueue_ = <<>> /\ presentationQueue_ = <<>>

\* recreateSwapChain: vkDeviceWaitIdle(device_)
RecreateWaitIdle ==
    /\ pc = "recreateWaitIdle"
    /\ DeviceIdle
    /\ pc' = "cleanupSwapChain"
    /\ iterOps' = Log(<<"devIdle">>)
    /\ UNCHANGED <<cpuVars, gpuVars, winVars, exitCode, iterSlot, recreateEntry, uniformBufferWritten,
                   iterFence, acquireResult, lastSubmit, prevSubmit, presentResult>>

\* variant: the render pass is destroyed with the chain
cleanupSwapChainAndRenderPass ==
    <<"imageViews", "framebuffers", "swapchain", "renderPass">>

\* cleanupSwapChain: vkDestroyImageView for every view, vkDestroyFramebuffer
\* for every framebuffer, vkDestroySwapchainKHR
cleanupSwapChain == <<"imageViews", "framebuffers", "swapchain">>

\* recreateSwapChain: cleanupSwapChain()
RecreateCleanup ==
    /\ pc = "cleanupSwapChain"
    /\ chainAlive' = FALSE
    /\ swapChainImages_' = 0
    /\ swapChainImageViews_' = 0
    /\ swapChainFramebuffers_' = 0
    /\ destroyed' = destroyed \o cleanupSwapChain
    /\ imageState' = [i \in Images |-> "destroyed"]
    /\ pc' = "createSwapChain"
    /\ iterOps' = Log(<<"cleanup">>)
    /\ UNCHANGED <<currentFrame_, framebufferResized_, commandBuffers_,
                   imageIndex, width, rcCaller, swapChainExtent_,
                   capabilities, createInfo,
                   inFlightFences_, imageAvailableSemaphores_,
                   renderFinishedSemaphores_, graphicsQueue_, presentationQueue_,
                   winVars, exitCode, iterSlot, recreateEntry, uniformBufferWritten, iterFence,
                   acquireResult, lastSubmit, prevSubmit, presentResult, deviceVars>>

\* variant: no return after the recreateSwapChain of the acquire
AfterRecreateAlwaysAdvance(caller) == "advance"

\* where control goes when recreateSwapChain returns to drawFrame: the call
\* after the acquire is followed by return, the one after present falls
\* through to the frame advance
AfterRecreate(caller) == IF caller = "acquire" THEN "mainLoop" ELSE "advance"

\* recreateSwapChain: createSwapChain(); createImageViews(); createFramebuffers();
\* each of which throws when the creation call fails
RecreateCreate ==
    /\ pc = "createSwapChain"
    /\ capabilities' = querySwapChainSupport(fbSize)
    /\ createInfo' = SwapchainCreateInfo(capabilities', fbSize, indices)
    /\ \E ok \in BOOLEAN :
        IF ok
        THEN /\ chainAlive' = TRUE
             /\ destroyed' = <<>>
             /\ swapChainExtent_' = createInfo'.imageExtent
             /\ swapChainImages_' = createInfo'.minImageCount
             /\ swapChainImageViews_' = createImageViews(swapChainImages_')
             /\ swapChainFramebuffers_' =
                    createFramebuffers(swapChainImageViews_')
             /\ imageState' = [i \in Images |-> "free"]
             /\ pc' = AfterRecreate(rcCaller)
             /\ iterOps' = Log(<<"create">>)
             /\ IF AfterRecreate(rcCaller) = "mainLoop"
                THEN imageIndex' = NoImage
                ELSE UNCHANGED imageIndex
        ELSE /\ \E failed \in CreationFailures :
                    /\ swapChainImages_' = failed.images
                    /\ swapChainImageViews_' = failed.views
                    /\ swapChainFramebuffers_' = failed.framebuffers
                    /\ swapChainExtent_' =
                          IF failed.images = 0 THEN swapChainExtent_
                          ELSE createInfo'.imageExtent
             /\ UNCHANGED <<chainAlive, destroyed, imageState, iterOps,
                            imageIndex, deviceVars>>
             /\ pc' = "thrown"
    /\ rcCaller' = "none"
    /\ width' = ZeroSize
    /\ recreateEntry' = NoEntry
    /\ UNCHANGED <<currentFrame_, framebufferResized_, commandBuffers_,
                   inFlightFences_,
                   imageAvailableSemaphores_, renderFinishedSemaphores_,
                   graphicsQueue_, presentationQueue_, winVars,
                   exitCode, iterSlot, uniformBufferWritten, iterFence, acquireResult, lastSubmit,
                   prevSubmit, presentResult, deviceVars>>

\* mainLoop: vkDeviceWaitIdle(device_) after the loop
MainLoopWaitIdle ==
    /\ pc = "mainLoopWaitIdle"
    /\ DeviceIdle
    /\ pc' = "cleanup"
    /\ UNCHANGED <<cpuVars, gpuVars, winVars, exitCode, histVars>>

\* cleanup: the destroy calls in the order of the function
cleanup ==
    cleanupSwapChain \o
    <<"vertexBuffer", "surface", "renderPass", "pipeline", "pipelineLayout",
      "commandPool", "syncObjects", "device", "debugMessenger", "instance",
      "window">>

\* run: cleanup(); main: return EXIT_SUCCESS
Cleanup ==
    /\ pc = "cleanup"
    /\ chainAlive' = FALSE
    /\ swapChainImages_' = 0
    /\ swapChainImageViews_' = 0
    /\ swapChainFramebuffers_' = 0
    /\ destroyed' = destroyed \o cleanup
    /\ imageState' = [i \in Images |-> "destroyed"]
    /\ exitCode' = 0
    /\ pc' = "exited"
    /\ UNCHANGED <<currentFrame_, framebufferResized_, commandBuffers_,
                   imageIndex, width, rcCaller, swapChainExtent_,
                   capabilities, createInfo,
                   inFlightFences_, imageAvailableSemaphores_,
                   renderFinishedSemaphores_, graphicsQueue_, presentationQueue_,
                   winVars, histVars, deviceVars>>

\* main: catch (const std::exception& e) { ...; return EXIT_FAILURE; }
MainCatch ==
    /\ pc = "thrown"
    /\ exitCode' = 1
    /\ pc' = "exited"
    /\ UNCHANGED <<cpuVars, gpuVars, winVars, histVars>>

----
\* a queue operation waits until its semaphore is signaled; one that names
\* no semaphore does not wait
SemaphoreWaitPasses(sems, s) == s \notin Slots \/ sems[s]

\* A command buffer whose execution has completed: it stays recorded, but
\* what it rendered to is followed no further (drawFrame resets and
\* re-records a buffer before every submission, and reads it nowhere).
Retired(cb) ==
    [cb EXCEPT !.framebuffer = NoImage, !.renderArea = NoSize,
               !.viewport = NoSize, !.scissor = NoSize]

\* The graphics queue executes the oldest submission once the semaphore it
\* waits on is signaled: the wait unsignals that semaphore, completion
\* signals the submission's semaphore and its fence.
GraphicsQueueExecute ==
    /\ pc # "exited"
    /\ graphicsQueue_ # <<>>
    /\ LET h == Head(graphicsQueue_) IN
        /\ SemaphoreWaitPasses(imageAvailableSemaphores_, h.waitSem)
        /\ imageAvailableSemaphores_' = [imageAvailableSemaphores_ EXCEPT ![h.waitSem] = FALSE]
        /\ renderFinishedSemaphores_' = [renderFinishedSemaphores_ EXCEPT ![h.signalSem] = TRUE]
        /\ inFlightFences_' = [inFlightFences_ EXCEPT ![h.fence] = "signaled"]
        /\ commandBuffers_' = [commandBuffers_ EXCEPT ![h.cmdBuf] = Retired(@)]
    /\ graphicsQueue_' = Tail(graphicsQueue_)
    /\ UNCHANGED <<pc, currentFrame_, framebufferResized_, imageIndex, width,
                   rcCaller, swapChainExtent_, chainAlive, destroyed, chainVars,
                   imageState, presentationQueue_, winVars, exitCode, histVars, deviceVars>>

\* The presentation queue processes the oldest present request once the
\* semaphore it waits on is signaled; the image goes back to the
\* presentation engine, from which it can be acquired again.
PresentQueueExecute ==
    /\ pc # "exited"
    /\ presentationQueue_ # <<>>
    /\ LET p == Head(presentationQueue_) IN
        /\ SemaphoreWaitPasses(renderFinishedSemaphores_, p.waitSem)
        /\ renderFinishedSemaphores_' = [renderFinishedSemaphores_ EXCEPT ![p.waitSem] = FALSE]
        /\ imageState' = [imageState EXCEPT ![p.image] = "free"]
    /\ presentationQueue_' = Tail(presentationQueue_)
    /\ UNCHANGED <<pc, cpuVars, inFlightFences_, imageAvailableSemaphores_,
                   graphicsQueue_, winVars, exitCode, histVars>>

Next ==
    \/ MainLoopTest
    \/ PollEvents
    \/ WaitForFences
    \/ AcquireNextImage
    \/ ResetFences
    \/ RecordCommandBuffer
    \/ UpdateUniformBuffer
    \/ QueueSubmit
    \/ QueuePresent
    \/ AdvanceFrame
    \/ RecreateGetSize
    \/ RecreateLoopBody
    \/ RecreateWaitIdle
    \/ RecreateCleanup
    \/ RecreateCreate
    \/ MainLoopWaitIdle
    \/ Cleanup
    \/ MainCatch
    \/ GraphicsQueueExecute
    \/ PresentQueueExecute

Spec == Init /\ [][Next]_vars

FairSpec == Spec /\ WF_vars(GraphicsQueueExecute) /\ WF_vars(WaitForFences)

\* the steps of the CPU thread that do not wait for the windowing layer:
\* every step but the turn of the loop of recreateSwapChain, whose
\* glfwWaitEvents returns only when an event arrives
CpuStep ==
    \/ MainLoopTest \/ PollEvents \/ WaitForFences \/ AcquireNextImage
    \/ ResetFences \/ RecordCommandBuffer \/ UpdateUniformBuffer
    \/ QueueSubmit \/ QueuePresent \/ AdvanceFrame \/ RecreateGetSize
    \/ RecreateWaitIdle \/ RecreateCleanup \/ RecreateCreate
    \/ MainLoopWaitIdle \/ Cleanup \/ MainCatch

\* the thread runs whenever it is not blocked, and both queues make progress;
\* nothing is assumed about the arrival of window events
LiveSpec ==
    Spec /\ WF_vars(CpuStep) /\ WF_vars(GraphicsQueueExecute)
         /\ WF_vars(PresentQueueExecute)

----
\* Vocabulary of the properties

\* the frame loop is between two calls of drawFrame
Idle == pc \in {"mainLoop", "pollEvents"}

\* the current (or, when Idle, the latest) call of drawFrame has performed op
Has(op) == \E k \in 1 .. Len(iterOps) : iterOps[k] = op

\* op1 was performed, and before op2 if op2 was performed at all
Before(op1, op2) ==
    \E k \in 1 .. Len(iterOps) :
        /\ iterOps[k] = op1
        /\ \A j \in 1 .. Len(iterOps) : iterOps[j] = op2 => k < j

\* the accepted graphics submissions that will signal the fence of slot s
PendingFor(s) == {k \in 1 .. Len(graphicsQueue_) : graphicsQueue_[k].fence = s}

\* the acquire of the current (or latest) call returned "stale"
StaleIteration == acquireResult = VK_ERROR_OUT_OF_DATE_KHR

----
\* C1 (as stated): when an iteration whose acquire returned stale has
\* returned, the fence of its slot is in the state it had when the iteration
\* began, and frameIndex still equals that slot.
C1_FenceAsAtIterationStart ==
    (pc = "mainLoop" /\ StaleIteration) =>
        /\ inFlightFences_[iterSlot] = iterFence
        /\ currentFrame_ = iterSlot

\* C1 (amended): in an iteration whose acquire returned stale, from the
\* acquire until the next iteration starts, the fence of its slot is
\* signaled, as the fence wait observed it, and was not reset by the
\* iteration (it stays signaled if it was so when the iteration began), and
\* frameIndex still equals that slot.
C1_StaleLeavesFenceSignaled ==
    StaleIteration =>
        /\ inFlightFences_[iterSlot] = "signaled"
        /\ ~Has("resetFence")
        /\ currentFrame_ = iterSlot

\* a stale iteration has returned, for a slot whose fence was unsignaled
\* when the iteration began
C1_Witness ==
    /\ pc = "mainLoop"
    /\ StaleIteration
    /\ Has("create")
    /\ iterFence = "unsignaled"

\* C2: in an iteration whose acquire returns stale, no command buffer is
\* reset or recorded, nothing is submitted to the graphics or the
\* presentation queue, and the chain has been destroyed and rebuilt when the
\* iteration has returned, hence before the next acquire.
C2_StaleAbandonsAndRebuilds ==
    StaleIteration =>
        /\ ~Has("resetCmd") /\ ~Has("record") /\ ~Has("ubo")
        /\ ~Has("submit") /\ ~Has("present")
        /\ Idle => /\ iterOps \in
                        {<<"wait", "acquire", "devIdle", "cleanup", "create">>,
                         <<"wait", "acquire", "zeroSize", "devIdle", "cleanup", "create">>}
                   /\ chainAlive
                   /\ graphicsQueue_ = <<>> /\ presentationQueue_ = <<>>

\* a stale iteration has returned with the chain rebuilt at another extent
C2_Witness ==
    /\ pc = "pollEvents"
    /\ StaleIteration
    /\ chainAlive
    /\ swapChainExtent_ = <<640, 480>>
    /\ lastSubmit # NoSlot

\* C3: between iterations every slot's fence is signaled or has exactly one
\* outstanding graphics submission that will signal it; the fence is reset
\* only after an acquire that returned success or suboptimal and before the
\* submit of the same iteration.
C3_NoOrphanFence ==
    /\ Idle => \A s \in Slots :
                  \/ inFlightFences_[s] = "signaled"
                  \/ Cardinality(PendingFor(s)) = 1
    /\ Has("resetFence") =>
          /\ acquireResult \in {VK_SUCCESS, VK_SUBOPTIMAL_KHR}
          /\ Before("acquire", "resetFence")
          /\ Before("resetFence", "submit")

\* between iterations, with the fences of both slots unsignaled and their
\* submissions outstanding
C3_Witness ==
    /\ Idle
    /\ \A s \in Slots : inFlightFences_[s] = "unsignaled"
    /\ Len(graphicsQueue_) = MAX_FRAMES_IN_FLIGHT

\* C4: if the GPU eventually completes every accepted submission, every
\* fence wait at the top of an iteration eventually returns, whichever slot
\* currentFrame_ names and whatever iterations came before.
C4_FenceWaitReturns ==
    (pc = "waitForFences") ~> (pc = "acquireNextImage")

\* the CPU is blocked in the fence wait of a slot whose submission is
\* outstanding
C4_Witness ==
    /\ pc = "waitForFences"
    /\ inFlightFences_[currentFrame_] = "unsignaled"
    /\ PendingFor(currentFrame_) # {}

\* C5: the number of graphics submissions issued whose fence has not yet
\* signaled is at most MAX_FRAMES_IN_FLIGHT.
C5_FramesInFlightBound == Len(graphicsQueue_) <= MAX_FRAMES_IN_FLIGHT

\* MAX_FRAMES_IN_FLIGHT submissions are outstanding while a further image is
\* free to be acquired
C5_Witness ==
    /\ Len(graphicsQueue_) = MAX_FRAMES_IN_FLIGHT
    /\ pc = "waitForFences"
    /\ \E i \in Images : imageState[i] = "free"

\* a pending submission e reads the command buffer of slot s or, through the
\* descriptor set recorded into its command buffer, the uniform buffer of s
UsesSlot(e, s) == e.cmdBuf = s \/ commandBuffers_[e.cmdBuf].descriptorSet = s

\* C6: the CPU resets and re-records the command buffer of slot s, and
\* writes the uniform buffer of slot s, only while no graphics submission
\* using slot s is pending, and after the fence wait of the same iteration.
C6_NoReuseWhilePending ==
    pc \in {"recordCommandBuffer", "updateUniformBuffer"} =>
        /\ \A k \in 1 .. Len(graphicsQueue_) : ~UsesSlot(graphicsQueue_[k], currentFrame_)
        /\ iterOps[1] = "wait"

\* the uniform buffer of a slot is about to be written while the submission
\* of the other slot is still pending
C6_Witness ==
    /\ pc = "updateUniformBuffer"
    /\ Len(graphicsQueue_) = 1
    /\ commandBuffers_[graphicsQueue_[1].cmdBuf].state = "recorded"

\* C7: at every acquire, the image-available semaphore of the slot is
\* unsignaled and no pending submission waits on it.
C7_AcquireSemaphoreFree ==
    pc = "acquireNextImage" =>
        /\ ~imageAvailableSemaphores_[currentFrame_]
        /\ \A k \in 1 .. Len(graphicsQueue_) : graphicsQueue_[k].waitSem # currentFrame_

\* an acquire is about to be issued for a slot that was used before, while
\* the other slot's submission is pending
C7_Witness ==
    /\ pc = "acquireNextImage"
    /\ commandBuffers_[currentFrame_].state = "recorded"
    /\ graphicsQueue_ # <<>>

\* C8: a present request is never processed before the graphics submission
\* that renders its image has finished, and it waits on the render-finished
\* semaphore which that submission signals.
C8_PresentAfterRender ==
    /\ [][(presentationQueue_ # <<>> /\ presentationQueue_' = Tail(presentationQueue_)) =>
            \A k \in 1 .. Len(graphicsQueue_) :
                graphicsQueue_[k].image # Head(presentationQueue_).image]_vars
    /\ [](\A j \in 1 .. Len(presentationQueue_), k \in 1 .. Len(graphicsQueue_) :
          graphicsQueue_[k].image = presentationQueue_[j].image =>
              presentationQueue_[j].waitSem = graphicsQueue_[k].signalSem)

\* C9: with MAX_FRAMES_IN_FLIGHT = 2 the iterations that reach the submit
\* use the slots 0,1,0,1,..., and a slot is submitted again only after the
\* fence of its previous submission was observed signaled.
C9_SlotsAlternate ==
    /\ (lastSubmit # NoSlot /\ prevSubmit = NoSlot) => lastSubmit = 0
    /\ prevSubmit # NoSlot => lastSubmit = (prevSubmit + 1) % 2
    /\ pc = "queueSubmit" =>
          /\ lastSubmit # NoSlot => currentFrame_ = (lastSubmit + 1) % 2
          /\ iterOps[1] = "wait"
          /\ PendingFor(currentFrame_) = {}

\* slot 0 is about to be submitted for the second time, after a stale
\* iteration has rebuilt the chain
C9_Witness ==
    /\ pc = "queueSubmit"
    /\ prevSubmit = 0 /\ lastSubmit = 1
    /\ swapChainExtent_ = <<640, 480>>
    /\ ~framebufferResized_

\* C10: frameIndex changes only in the last step of an iteration that
\* reached the present call, to (frameIndex + 1) mod MAX_FRAMES_IN_FLIGHT,
\* also when that iteration recreated the chain after the present; every
\* other iteration leaves it, and it stays in 0..MAX_FRAMES_IN_FLIGHT-1.
C10_FrameIndexAdvance ==
    /\ [](/\ currentFrame_ \in 0 .. (MAX_FRAMES_IN_FLIGHT - 1)
          /\ Idle => currentFrame_ = IF Has("present")
                                     THEN (iterSlot + 1) % MAX_FRAMES_IN_FLIGHT
                                     ELSE iterSlot)
    /\ [][currentFrame_' # currentFrame_ =>
            /\ pc = "advance" /\ pc' = "mainLoop"
            /\ Has("present")
            /\ currentFrame_' = (currentFrame_ + 1) % MAX_FRAMES_IN_FLIGHT]_vars

\* an iteration that recreated the chain after its present has returned
\* with frameIndex advanced
C10_Witness ==
    /\ pc = "mainLoop"
    /\ Has("present") /\ Has("create")
    /\ currentFrame_ = (iterSlot + 1) % MAX_FRAMES_IN_FLIGHT

\* C11: an iteration whose acquire returned suboptimal goes through record,
\* submit and present, and has rebuilt the chain after its present when it
\* has returned, whatever the present returned.
C11_SuboptimalAcquireRebuilds ==
    (Idle /\ acquireResult = VK_SUBOPTIMAL_KHR) =>
        /\ Has("record") /\ Has("submit") /\ Has("present")
        /\ Has("create")
        /\ Before("present", "create")

\* the CPU step that issues vkQueuePresentKHR and tests its result
PresentStep == pc = "queuePresent" /\ pc' # "queuePresent"

\* C12: when the present returns stale or suboptimal, or the
\* framebufferResized flag is set, drawFrame clears the flag and enters
\* recreateSwapChain; the flag is cleared before the rebuild starts, and the
\* chain has been destroyed and rebuilt before the iteration ends.
C12_PresentRecreates ==
    /\ [][(PresentStep /\ (\/ presentResult' \in {VK_ERROR_OUT_OF_DATE_KHR,
                                                  VK_SUBOPTIMAL_KHR}
                           \/ framebufferResized_)) =>
            /\ pc' = "recreateSwapChain"
            /\ rcCaller' = "present"
            /\ ~framebufferResized_']_vars
    /\ []((pc = "recreateSwapChain" /\ rcCaller = "present") =>
            (~framebufferResized_ /\ Has("clearResized")))
    /\ []((pc = "advance" /\ Has("clearResized")) =>
            /\ chainAlive
            /\ Before("present", "clearResized")
            /\ Before("clearResized", "devIdle")
            /\ Before("devIdle", "cleanup")
            /\ Before("cleanup", "create"))

\* an iteration whose present found the flag set is about to end, the chain
\* rebuilt at another extent
C12_Witness ==
    /\ pc = "advance"
    /\ Has("clearResized") /\ Has("create")
    /\ swapChainExtent_ = <<640, 480>>
    /\ ~framebufferResized_

\* C13: a present result other than success, stale and suboptimal is
\* fatal, also when the framebufferResized flag is set.
C13_PresentErrorFatal ==
    presentResult = VK_ERROR_OTHER => pc \in {"thrown", "exited"}

\* C14: an acquire result other than success, suboptimal and stale is
\* fatal (the process ends with EXIT_FAILURE); in that iteration the fence
\* of the slot is not reset, no command buffer is reset or recorded, and
\* nothing is submitted or presented.
C14_AcquireErrorFatal ==
    acquireResult = VK_ERROR_OTHER =>
        /\ pc \in {"thrown", "exited"}
        /\ pc = "exited" => exitCode = 1
        /\ iterOps = <<"wait", "acquire">>
        /\ inFlightFences_[iterSlot] = "signaled"
        /\ \A k \in 1 .. Len(graphicsQueue_) : graphicsQueue_[k].fence # iterSlot

\* the process has ended on an acquire error in a later iteration, with a
\* submission of the other slot outstanding
C14_Witness ==
    /\ pc = "exited"
    /\ acquireResult = VK_ERROR_OTHER
    /\ lastSubmit # NoSlot
    /\ graphicsQueue_ # <<>>

\* no submission or present request is pending on a queue of the device
NothingPending == graphicsQueue_ = <<>> /\ presentationQueue_ = <<>>

\* C15: the swapchain, its image views and its framebuffers are destroyed,
\* in recreateSwapChain and at shutdown, only while no submitted GPU work
\* is pending: the destruction is entered from a completed device-idle
\* wait, with nothing submitted in between.
C15_DestroyOnlyWhenIdle ==
    /\ [](pc \in {"cleanupSwapChain", "cleanup"} => NothingPending)
    /\ [][destroyed' # destroyed =>
            /\ NothingPending
            /\ pc \in {"cleanupSwapChain", "cleanup", "createSwapChain"}]_vars
    /\ [][(pc' \in {"cleanupSwapChain", "cleanup"} /\ pc' # pc) =>
            /\ pc \in {"recreateWaitIdle", "mainLoopWaitIdle"}
            /\ NothingPending
            /\ UNCHANGED <<graphicsQueue_, presentationQueue_, deviceVars>>]_vars

\* the old chain is about to be destroyed in an iteration that submitted
\* and presented, after an earlier frame
C15_Witness ==
    /\ pc = "cleanupSwapChain"
    /\ Has("submit") /\ Has("present")
    /\ prevSubmit # NoSlot

\* x has been destroyed (and not created again)
IsDestroyed(x) == \E k \in 1 .. Len(destroyed) : destroyed[k] = x

\* C16: when the process exits with a non-zero status after a fatal error,
\* the teardown has run before: the device was idle and the GPU objects
\* created at startup have been destroyed.
C16_FatalErrorTearsDown ==
    (pc = "exited" /\ exitCode # 0) =>
        /\ NothingPending
        /\ \A x \in {"swapchain", "commandPool", "syncObjects", "device", "instance"} :
              IsDestroyed(x)

\* x is destroyed before y
DestroyedBefore(x, y) ==
    \E j, k \in 1 .. Len(destroyed) :
        j < k /\ destroyed[j] = x /\ destroyed[k] = y

\* C17: at a shutdown the objects are destroyed in the order
\* synchronization objects, command pool, chain (views, framebuffers,
\* swapchain), pipeline and render pass, surface, device, instance.
C17_ShutdownOrder ==
    (pc = "exited" /\ exitCode = 0) =>
        /\ DestroyedBefore("syncObjects", "commandPool")
        /\ \A c \in {"imageViews", "framebuffers", "swapchain"} :
              /\ DestroyedBefore("commandPool", c)
              /\ DestroyedBefore(c, "pipeline")
              /\ DestroyedBefore(c, "renderPass")
        /\ DestroyedBefore("pipeline", "surface")
        /\ DestroyedBefore("renderPass", "surface")
        /\ DestroyedBefore("surface", "device")
        /\ DestroyedBefore("device", "instance")

\* the latest call of drawFrame has run to its end: to the frame advance, or
\* to the return after the recreateSwapChain of a stale acquire
IterationEnded ==
    \/ iterOps = <<>>
    \/ iterOps[Len(iterOps)] = "advance"
    \/ StaleIteration /\ iterOps[Len(iterOps)] = "create"

\* the loop of mainLoop has been left for the shutdown
LoopLeft == pc \in {"mainLoopWaitIdle", "cleanup"} \/ (pc = "exited" /\ exitCode = 0)

\* C18: the close signal is examined only between iterations: the loop is
\* left only by the test of mainLoop, which runs when the iteration before
\* has run to its end, whenever the signal arrived; and once the loop is
\* left nothing is acquired, submitted or presented any more.
C18_CloseBetweenIterations ==
    /\ [](pc = "mainLoop" => IterationEnded)
    /\ [][(pc' = "mainLoopWaitIdle" /\ pc # "mainLoopWaitIdle") =>
            /\ pc = "mainLoop"
            /\ shouldClose
            /\ IterationEnded]_vars
    /\ [][(shouldClose /\ pc \notin {"mainLoop", "thrown", "exited"} /\ ~LoopLeft) =>
            pc' \notin {"mainLoopWaitIdle", "cleanup", "exited"}]_vars
    /\ [][LoopLeft =>
            /\ LoopLeft'
            /\ UNCHANGED <<iterOps, imageIndex, lastSubmit, acquireResult, deviceVars>>
            /\ Len(graphicsQueue_') <= Len(graphicsQueue_)
            /\ Len(presentationQueue_') <= Len(presentationQueue_)
            /\ \A i \in Images : imageState'[i] = "acquired" => imageState[i] = "acquired"]_vars

\* the loop has been left after an iteration that waited in
\* recreateSwapChain for a nonzero size, rebuilt the chain and advanced
C18_Witness ==
    /\ pc = "mainLoopWaitIdle"
    /\ Has("zeroSize") /\ Has("create") /\ Has("advance")
    /\ prevSubmit # NoSlot

\* C19: when recreateSwapChain creates the chain, the framebuffer size the
\* windowing layer reports is nonzero in width and height, and so is the
\* extent of the created chain.
C19_NoZeroSizedCreate ==
    /\ pc = "createSwapChain" => (fbSize[1] # 0 /\ fbSize[2] # 0)
    /\ swapChainExtent_[1] # 0 /\ swapChainExtent_[2] # 0

\* C20: after a size poll of recreateSwapChain that reported (0,0), the
\* device-idle wait, the destruction of the old chain and the creation are
\* reached only when a later poll has reported a nonzero size: the loop
\* goes on while the latest poll reported zero, and is left only by a poll
\* that reports a nonzero size.
C20_ZeroPollBlocks ==
    /\ []((pc = "recreateLoopBody") => (width[1] = 0 \/ width[2] = 0))
    /\ []((pc \in {"recreateWaitIdle", "cleanupSwapChain", "createSwapChain"}) =>
            (width[1] # 0 /\ width[2] # 0))
    /\ []((Has("zeroSize") /\ Has("devIdle")) => Before("zeroSize", "devIdle"))
    /\ [][(pc = "recreateLoopBody" /\ pc' # "recreateLoopBody") =>
            /\ pc' = "recreateWaitIdle"
            /\ width' = fbSize
            /\ fbSize[1] # 0 /\ fbSize[2] # 0]_vars

\* a poll reported (0,0), a later one a nonzero size, and the chain is
\* about to be created
C20_Witness ==
    /\ pc = "createSwapChain"
    /\ Has("zeroSize")
    /\ width = <<640, 480>>

\* C21: when recreateSwapChain is waiting in its loop because the size was
\* zero and the size has become nonzero, it eventually reaches the creation
\* of the chain unless the size becomes zero again, whether or not further
\* window events arrive.
C21_NonzeroSizeProceeds ==
    (pc = "recreateLoopBody" /\ fbSize[1] # 0 /\ fbSize[2] # 0)
        ~> (pc = "createSwapChain" \/ fbSize[1] = 0 \/ fbSize[2] = 0)

\* the command buffers whose recorded frame is not yet rendered
LiveFrames == {s \in Slots : commandBuffers_[s].framebuffer # NoImage}

\* the CPU step that resets and records the command buffer of the slot
RecordStep == pc = "recordCommandBuffer" /\ pc' = "updateUniformBuffer"

\* C22: a frame is recorded with viewport, scissor and render area equal to
\* the extent of the chain current at the recording, and that chain is
\* still the current one until the frame is rendered; a chain rebuilt
\* after a present that found framebufferResized set has the size reported
\* at the rebuild as its extent, which the next recorded frame then uses.
C22_ViewportMatchesExtent ==
    /\ [][RecordStep =>
            /\ chainAlive
            /\ swapChainExtent_' = swapChainExtent_
            /\ commandBuffers_'[currentFrame_].viewport = swapChainExtent_
            /\ commandBuffers_'[currentFrame_].scissor = swapChainExtent_
            /\ commandBuffers_'[currentFrame_].renderArea = swapChainExtent_]_vars
    /\ [](\A s \in LiveFrames :
            /\ chainAlive
            /\ commandBuffers_[s].viewport = swapChainExtent_
            /\ commandBuffers_[s].scissor = swapChainExtent_
            /\ commandBuffers_[s].renderArea = swapChainExtent_)
    /\ [][(PresentStep /\ framebufferResized_) => pc' = "recreateSwapChain"]_vars
    /\ [][(pc = "createSwapChain" /\ pc' = "advance") =>
            (Has("clearResized") /\ chainAlive' /\ swapChainExtent_' = fbSize)]_vars

\* a frame has just been recorded for a chain rebuilt at another extent
C22_Witness ==
    /\ pc = "updateUniformBuffer"
    /\ prevSubmit # NoSlot
    /\ commandBuffers_[currentFrame_].viewport = <<640, 480>>
    /\ commandBuffers_[currentFrame_].scissor = <<640, 480>>

----
\* createSwapChain on any surface: the choice of the extent and of the image
\* count for every capability record a surface can report

MaxDim == 2
MaxCount == 2
Dims == 0 .. MaxDim
Extents == Dims \X Dims
Within(e, lo, hi) ==
    /\ lo[1] <= e[1] /\ e[1] <= hi[1]
    /\ lo[2] <= e[2] /\ e[2] <= hi[2]

\* VkSurfaceCapabilitiesKHR as a surface reports it: the minimum extent is
\* not above the maximum, the current extent is either the special value
\* or between them, the minimum image count is at least 1 and the maximum
\* is 0 or not below the minimum
SurfaceCapabilities ==
    {c \in [currentExtent : Extents \cup {<<UINT32_MAX, UINT32_MAX>>},
            minImageExtent : Extents, maxImageExtent : Extents,
            minImageCount : 1 .. MaxCount, maxImageCount : 0 .. MaxCount + 1] :
        /\ Within(c.minImageExtent, c.minImageExtent, c.maxImageExtent)
        /\ \/ c.currentExtent = <<UINT32_MAX, UINT32_MAX>>
           \/ Within(c.currentExtent, c.minImageExtent, c.maxImageExtent)
        /\ c.maxImageCount = 0 \/ c.maxImageCount >= c.minImageCount}

\* glfwGetFramebufferSize: any size, also outside what the surface allows
FramebufferSizes == (0 .. MaxDim + 1) \X (0 .. MaxDim + 1)

\* createSwapChain is entered with the capabilities just queried
CreateInit ==
    /\ pc = "chooseSwapExtent"
    /\ capabilities \in SurfaceCapabilities
    /\ fbSize \in FramebufferSizes
    /\ queueFamilies = PickedQueueFamilies
    /\ indices = findQueueFamilies(queueFamilies)
    /\ createInfo = [minImageCount |-> 0, imageExtent |-> NoSize,
                     imageSharingMode |-> imageSharingMode(indices)]
    /\ currentFrame_ = 0
    /\ framebufferResized_ = FALSE
    /\ inFlightFences_ = createSyncObjects.fence
    /\ imageAvailableSemaphores_ = createSyncObjects.imageAvailable
    /\ renderFinishedSemaphores_ = createSyncObjects.renderFinished
    /\ commandBuffers_ = [s \in Slots |-> InitialCommandBuffer]
    /\ imageIndex = NoImage
    /\ width = ZeroSize
    /\ rcCaller = "none"
    /\ swapChainExtent_ = NoSize
    /\ chainAlive = FALSE
    /\ swapChainImages_ = 0
    /\ swapChainImageViews_ = 0
    /\ swapChainFramebuffers_ = 0
    /\ destroyed = <<>>
    /\ imageState = [i \in Images |-> "destroyed"]
    /\ graphicsQueue_ = <<>>
    /\ presentationQueue_ = <<>>
    /\ shouldClose = FALSE
    /\ exitCode = -1
    /\ iterOps = <<>>
    /\ iterSlot = 0
    /\ uniformBufferWritten = NoSlot
    /\ recreateEntry = NoEntry
    /\ iterFence = "signaled"
    /\ acquireResult = NoResult
    /\ lastSubmit = NoSlot
    /\ prevSubmit = NoSlot
    /\ presentResult = NoResult

\* createSwapChain: VkExtent2D extent = chooseSwapExtent(capabilities)
ChooseSwapExtent ==
    /\ pc = "chooseSwapExtent"
    /\ createInfo' = [createInfo EXCEPT
                        !.imageExtent = chooseSwapExtent(capabilities, fbSize)]
    /\ pc' = "imageCount"
    /\ UNCHANGED <<currentFrame_, framebufferResized_, commandBuffers_,
                   imageIndex, width, rcCaller, swapChainExtent_, chainAlive,
                   destroyed, swapChainImages_, swapChainImageViews_,
                   swapChainFramebuffers_, capabilities, gpuVars, winVars,
                   exitCode, histVars, deviceVars>>

\* createSwapChain: the image count put into createInfo.minImageCount
ChooseImageCount ==
    /\ pc = "imageCount"
    /\ createInfo' = [createInfo EXCEPT
                        !.minImageCount = imageCount(capabilities)]
    /\ pc' = "vkCreateSwapchainKHR"
    /\ UNCHANGED <<currentFrame_, framebufferResized_, commandBuffers_,
                   imageIndex, width, rcCaller, swapChainExtent_, chainAlive,
                   destroyed, swapChainImages_, swapChainImageViews_,
                   swapChainFramebuffers_, capabilities, gpuVars, winVars,
                   exitCode, histVars, deviceVars>>

CreateNext == ChooseSwapExtent \/ ChooseImageCount

CreateSpec == CreateInit /\ [][CreateNext]_vars

\* C23: after a successful creation or recreation of the chain the numbers
\* of images, of image views and of framebuffers are equal and not zero.
C23_CountsEqualNonzero ==
    /\ [](chainAlive =>
            /\ swapChainImages_ > 0
            /\ swapChainImageViews_ = swapChainImages_
            /\ swapChainFramebuffers_ = swapChainImages_)
    /\ [][(pc = "createSwapChain" /\ pc' # "thrown") =>
            /\ swapChainImages_' > 0
            /\ swapChainImageViews_' = swapChainImages_'
            /\ swapChainFramebuffers_' = swapChainImages_']_vars

\* recreateSwapChain has returned with a new chain
C23_Witness ==
    /\ Has("create")
    /\ chainAlive
    /\ swapChainImages_ = NumImages
    /\ swapChainFramebuffers_ = NumImages

\* C24: at every point either all image views and all framebuffers of the
\* chain exist or none of them does, also when a creation call fails.
C24_AllOrNothing ==
    \/ swapChainImageViews_ = 0 /\ swapChainFramebuffers_ = 0
    \/ swapChainImageViews_ = NumImages /\ swapChainFramebuffers_ = NumImages

\* C25: whatever the surface reports, with the current extent the special
\* value or not, the extent chosen for the chain has its width between the
\* widths and its height between the heights of minImageExtent and
\* maxImageExtent.
C25_ExtentWithinLimits ==
    createInfo.imageExtent # NoSize =>
        /\ capabilities.minImageExtent[1] <= createInfo.imageExtent[1]
        /\ createInfo.imageExtent[1] <= capabilities.maxImageExtent[1]
        /\ capabilities.minImageExtent[2] <= createInfo.imageExtent[2]
        /\ createInfo.imageExtent[2] <= capabilities.maxImageExtent[2]

\* the special value was reported and the window is wider than allowed and
\* lower than allowed
C25_Witness ==
    /\ createInfo.imageExtent # NoSize
    /\ capabilities.currentExtent = <<UINT32_MAX, UINT32_MAX>>
    /\ fbSize[1] > capabilities.maxImageExtent[1]
    /\ fbSize[2] < capabilities.minImageExtent[2]
    /\ createInfo.imageExtent =
          <<capabilities.maxImageExtent[1], capabilities.minImageExtent[2]>>

\* C28: the image count asked for is minImageCount + 1, lowered to
\* maxImageCount exactly when maxImageCount is not 0 and minImageCount + 1
\* is above it; so it is never below minImageCount and, when maxImageCount
\* is not 0, never above maxImageCount.
C28_ImageCount ==
    pc = "vkCreateSwapchainKHR" =>
        LET lowered == /\ capabilities.maxImageCount # 0
                       /\ capabilities.minImageCount + 1 >
                            capabilities.maxImageCount
        IN  /\ createInfo.minImageCount =
                  IF lowered THEN capabilities.maxImageCount
                  ELSE capabilities.minImageCount + 1
            /\ createInfo.minImageCount >= capabilities.minImageCount
            /\ capabilities.maxImageCount # 0 =>
                  createInfo.minImageCount <= capabilities.maxImageCount

\* the maximum equals the minimum, so the count is lowered to it
C28_Witness ==
    /\ pc = "vkCreateSwapchainKHR"
    /\ capabilities.maxImageCount = capabilities.minImageCount
    /\ createInfo.minImageCount = capabilities.maxImageCount

\* the commands the specification lists, the binds in any order
BindCommands == {"bindVertexBuffers", "bindIndexBuffer", "bindDescriptorSets"}

\* C26: every recorded command buffer holds the sequence begin, begin render
\* pass, bind pipeline, set viewport, set scissor, the vertex, index and
\* descriptor binds, draw, end render pass, end, in no other order.
C26_CommandOrder ==
    \A s \in Slots :
        commandBuffers_[s].state = "recorded" =>
            LET c == commandBuffers_[s].commands
                n == Len(c)
            IN  /\ n >= 8
                /\ SubSeq(c, 1, 5) = <<"begin", "beginRenderPass", "bindPipeline",
                                       "setViewport", "setScissor">>
                /\ \A k \in 6 .. n - 3 : c[k] \in BindCommands
                /\ c[n - 2] \in {"draw", "drawIndexed"}
                /\ SubSeq(c, n - 1, n) = <<"endRenderPass", "end">>

\* C27: every teardown of the chain, in recreateSwapChain and at shutdown,
\* destroys the framebuffers first, then the image views, then the
\* swapchain.
C27_TeardownOrder ==
    [][(chainAlive /\ ~chainAlive') =>
        /\ Len(destroyed') >= Len(destroyed) + 3
        /\ SubSeq(destroyed', Len(destroyed) + 1, Len(destroyed) + 3) =
              <<"framebuffers", "imageViews", "swapchain">>]_vars

\* the positions of the CPU inside drawFrame before the frame advance
InDrawFrame ==
    pc \in {"waitForFences", "acquireNextImage", "resetFences",
            "recordCommandBuffer", "updateUniformBuffer", "queueSubmit",
            "queuePresent"}

\* C29: an iteration running for slot s reads and writes only the fence,
\* the two semaphores and the command buffer of slot s, binds only the
\* descriptor set of s and writes only the uniform buffer of s: its steps
\* leave the objects of every other slot as they are, and its submission
\* and its present request name objects of s only.
C29_SlotOwnership ==
    /\ [](InDrawFrame => currentFrame_ = iterSlot)
    /\ [](uniformBufferWritten \in {NoSlot, currentFrame_})
    /\ [][(InDrawFrame /\ pc' # pc) =>
            /\ (pc = "waitForFences" => inFlightFences_[currentFrame_] = "signaled")
            /\ \A t \in Slots \ {currentFrame_} :
                  /\ inFlightFences_'[t] = inFlightFences_[t]
                  /\ imageAvailableSemaphores_'[t] = imageAvailableSemaphores_[t]
                  /\ renderFinishedSemaphores_'[t] = renderFinishedSemaphores_[t]
                  /\ commandBuffers_'[t] = commandBuffers_[t]]_vars
    /\ [][RecordStep =>
            commandBuffers_'[currentFrame_].descriptorSet = currentFrame_]_vars
    /\ [][Len(graphicsQueue_') > Len(graphicsQueue_) =>
            LET e == graphicsQueue_'[Len(graphicsQueue_')]
            IN  /\ e.waitSem = currentFrame_
                /\ e.cmdBuf = currentFrame_
                /\ e.signalSem = currentFrame_
                /\ e.fence = currentFrame_]_vars
    /\ [][Len(presentationQueue_') > Len(presentationQueue_) =>
            presentationQueue_'[Len(presentationQueue_')].waitSem = currentFrame_]_vars

\* the iteration of slot 1 has submitted while the frame of slot 0 is still
\* being rendered
C29_Witness ==
    /\ pc = "queuePresent"
    /\ currentFrame_ = 1
    /\ PendingFor(0) # {}
    /\ PendingFor(1) # {}
    /\ Has("ubo")

\* the images acquired and not yet handed to the presentation queue
AcquiredImages == {i \in Images : imageState[i] = "acquired"}

\* C30: in an iteration that reaches the present, the index presented is
\* the index its acquire returned and the index of the framebuffer bound at
\* its recording, and it is a position of the framebuffer array of the
\* chain current at the recording.
C30_PresentedIsAcquired ==
    /\ [][(pc = "acquireNextImage" /\ pc' = "resetFences") =>
            AcquiredImages' = {imageIndex'}]_vars
    /\ [](pc \in {"resetFences", "recordCommandBuffer", "updateUniformBuffer",
                   "queueSubmit", "queuePresent"} =>
            AcquiredImages = {imageIndex})
    /\ [][RecordStep =>
            /\ chainAlive
            /\ commandBuffers_'[currentFrame_].framebuffer = imageIndex
            /\ imageIndex \in 0 .. swapChainFramebuffers_ - 1]_vars
    /\ [][Len(graphicsQueue_') > Len(graphicsQueue_) =>
            graphicsQueue_'[Len(graphicsQueue_')].image = imageIndex]_vars
    /\ [][Len(presentationQueue_') > Len(presentationQueue_) =>
            /\ presentationQueue_'[Len(presentationQueue_')].image = imageIndex
            /\ AcquiredImages = {imageIndex}]_vars

\* the last image of the chain was acquired, recorded and presented
C30_Witness ==
    /\ Has("present")
    /\ presentationQueue_ # <<>>
    /\ presentationQueue_[Len(presentationQueue_)].image = NumImages - 1
    /\ imageIndex = NumImages - 1

\* a step of the CPU inside recreateSwapChain (a step of a queue takes an
\* entry off that queue)
RecreateStep ==
    /\ pc \in {"recreateSwapChain", "recreateLoopBody", "recreateWaitIdle",
                "cleanupSwapChain", "createSwapChain"}
    /\ graphicsQueue_' = graphicsQueue_
    /\ presentationQueue_' = presentationQueue_

\* recreateSwapChain returns with the new chain
RecreateReturns == pc = "createSwapChain" /\ chainAlive'

\* C31 (as stated): after a recreate the fences and semaphores are in the
\* states they had before it; in particular the fence of the current slot
\* is in the state it had when recreateSwapChain was entered, and frameIndex
\* is the same.
C31_SameAfterRecreate ==
    [][RecreateReturns =>
        /\ inFlightFences_'[currentFrame_'] = recreateEntry
        /\ currentFrame_' = currentFrame_]_vars

\* C31 (amended): no step of recreateSwapChain changes a fence, a semaphore,
\* a command buffer or frameIndex, and recreateSwapChain destroys chain
\* objects only (not the render pass, the pipeline, the synchronization
\* objects or the command pool); between its entry and its return a fence
\* changes only by the completion of a submission made before, which the
\* device-idle wait waits for, so a fence signaled at the entry is signaled
\* at the return and an unsignaled one has become signaled.
C31_RecreateTouchesOnlyChain ==
    /\ [][RecreateStep =>
            /\ inFlightFences_' = inFlightFences_
            /\ imageAvailableSemaphores_' = imageAvailableSemaphores_
            /\ renderFinishedSemaphores_' = renderFinishedSemaphores_
            /\ commandBuffers_' = commandBuffers_
            /\ currentFrame_' = currentFrame_
            /\ \A k \in Len(destroyed) + 1 .. Len(destroyed') :
                  destroyed'[k] \in {"imageViews", "framebuffers", "swapchain"}]_vars
    /\ [][RecreateReturns =>
            /\ recreateEntry \in {"signaled", "unsignaled"}
            /\ \A s \in Slots : inFlightFences_'[s] = "signaled"]_vars

\* a recreate entered after the present of a frame has returned: the fence
\* reset for that frame is signaled
C31_Witness ==
    /\ pc = "advance"
    /\ Has("submit")
    /\ Has("create")
    /\ chainAlive
    /\ inFlightFences_[currentFrame_] = "signaled"

\* the present requests accepted and not yet processed that wait on the
\* render-finished semaphore of slot s
PresentWaiters(s) ==
    {k \in 1 .. Len(presentationQueue_) : presentationQueue_[k].waitSem = s}

\* C32: at every submit the render-finished semaphore of the slot is
\* unsignaled and no present request is still waiting on it: the present of
\* the previous use of the slot has consumed it.
C32_RenderFinishedFree ==
    pc = "queueSubmit" =>
        /\ ~renderFinishedSemaphores_[currentFrame_]
        /\ PresentWaiters(currentFrame_) = {}

\* C33: once the window is to be closed the program eventually leaves the
\* frame loop for the device-idle wait of the shutdown (unless a fatal error
\* ends it before), also when the close arrives while recreateSwapChain
\* waits for a framebuffer size that is not zero.
C33_CloseLeavesLoop ==
    shouldClose ~> (LoopLeft \/ pc \in {"thrown", "exited"})

\* C34: the recreate of the stale-acquire path does not clear
\* framebufferResized: the flag is cleared only by the branch after the
\* present that enters recreateSwapChain, and no step of the recreate of the
\* acquire path but the delivery of window events, which can only set it,
\* changes it; so a flag set when the acquire returned stale is set when
\* that iteration returns, and the next present enters recreateSwapChain.
C34_StaleRecreateKeepsFlag ==
    /\ [][(framebufferResized_ /\ ~framebufferResized_') =>
            (PresentStep /\ pc' = "recreateSwapChain")]_vars
    /\ [][(RecreateStep /\ rcCaller = "acquire" /\ pc # "recreateLoopBody") =>
            framebufferResized_' = framebufferResized_]_vars
    /\ [][(pc = "acquireNextImage" /\ pc' = "recreateSwapChain") =>
            framebufferResized_' = framebufferResized_]_vars
    /\ [][(PresentStep /\ framebufferResized_) =>
            (pc' = "recreateSwapChain" /\ rcCaller' = "present"
             /\ ~framebufferResized_')]_vars

\* an iteration whose acquire returned stale with the flag set has rebuilt
\* the chain and returned, and the flag is set
C34_Witness ==
    /\ pc = "mainLoop"
    /\ StaleIteration
    /\ Has("create")
    /\ chainAlive
    /\ framebufferResized_

\* C35: no resize notification is lost: provided iterations keep being run,
\* whenever framebufferResized is set, by the callback during the event
\* polling between iterations or during the wait of recreateSwapChain, a
\* recreateSwapChain is entered afterwards, unless the window is closed.
C35_ResizeNotLost ==
    ([]<>(pc = "pollEvents") /\ []<>(pc = "waitForFences")) =>
        (framebufferResized_ ~> (pc = "recreateSwapChain" \/ shouldClose))

\* the flag was cleared by the branch of the present and set again by an
\* event delivered during the wait of recreateSwapChain, which has ended
C35_Witness ==
    /\ pc = "recreateWaitIdle"
    /\ rcCaller = "present"
    /\ framebufferResized_
    /\ ~shouldClose

----
\* findQueueFamilies on any physical device, and the sharing mode
\* createSwapChain takes from its result

MaxFamilies == 3

\* VkQueueFamilyProperties with the answer of
\* vkGetPhysicalDeviceSurfaceSupportKHR for each family
QueueFamilyProperties == [graphics : BOOLEAN, present : BOOLEAN]
PhysicalDevices ==
    UNION {[1 .. n -> QueueFamilyProperties] : n \in 0 .. MaxFamilies}

\* pickPhysicalDevice looks at a device: isDeviceSuitable calls
\* findQueueFamilies on it
QueueInit ==
    /\ pc = "findQueueFamilies"
    /\ queueFamilies \in PhysicalDevices
    /\ indices = [graphicsFamily |-> nullopt, presentationFamily |-> nullopt]
    /\ capabilities = querySwapChainSupport(<<WIDTH, HEIGHT>>)
    /\ fbSize = <<WIDTH, HEIGHT>>
    /\ createInfo = [minImageCount |-> 0, imageExtent |-> NoSize,
                     imageSharingMode |-> "none"]
    /\ currentFrame_ = 0
    /\ framebufferResized_ = FALSE
    /\ inFlightFences_ = createSyncObjects.fence
    /\ imageAvailableSemaphores_ = createSyncObjects.imageAvailable
    /\ renderFinishedSemaphores_ = createSyncObjects.renderFinished
    /\ commandBuffers_ = [s \in Slots |-> InitialCommandBuffer]
    /\ imageIndex = NoImage
    /\ width = ZeroSize
    /\ rcCaller = "none"
    /\ swapChainExtent_ = NoSize
    /\ chainAlive = FALSE
    /\ swapChainImages_ = 0
    /\ swapChainImageViews_ = 0
    /\ swapChainFramebuffers_ = 0
    /\ destroyed = <<>>
    /\ imageState = [i \in Images |-> "destroyed"]
    /\ graphicsQueue_ = <<>>
    /\ presentationQueue_ = <<>>
    /\ shouldClose = FALSE
    /\ exitCode = -1
    /\ iterOps = <<>>
    /\ iterSlot = 0
    /\ uniformBufferWritten = NoSlot
    /\ recreateEntry = NoEntry
    /\ iterFence = "signaled"
    /\ acquireResult = NoResult
    /\ lastSubmit = NoSlot
    /\ prevSubmit = NoSlot
    /\ presentResult = NoResult

\* isDeviceSuitable: QueueFamilyIndices indices = findQueueFamilies(device,
\* surface)
FindQueueFamilies ==
    /\ pc = "findQueueFamilies"
    /\ indices' = findQueueFamilies(queueFamilies)
    /\ pc' = "isDeviceSuitable"
    /\ UNCHANGED <<currentFrame_, framebufferResized_, commandBuffers_,
                   imageIndex, width, rcCaller, swapChainExtent_, chainAlive,
                   destroyed, chainVars, queueFamilies, gpuVars, winVars,
                   exitCode, histVars>>

\* isDeviceSuitable: the device is taken when the indices are complete and
\* its extensions and swapchain support are adequate
IsDeviceSuitable ==
    /\ pc = "isDeviceSuitable"
    /\ \E extensionsSupported \in BOOLEAN, swapChainAdequate \in BOOLEAN :
          pc' = IF isComplete(indices) /\ extensionsSupported
                   /\ swapChainAdequate
                THEN "createSwapChain" ELSE "unsuitable"
    /\ UNCHANGED <<cpuVars, gpuVars, winVars, exitCode, histVars>>

\* createSwapChain: findQueueFamilies again on the picked device, then the
\* sharing mode from the two indices
ChooseSharingMode ==
    /\ pc = "createSwapChain"
    /\ indices' = findQueueFamilies(queueFamilies)
    /\ createInfo' = [createInfo EXCEPT
                        !.imageSharingMode = imageSharingMode(indices')]
    /\ pc' = "vkCreateSwapchainKHR"
    /\ UNCHANGED <<currentFrame_, framebufferResized_, commandBuffers_,
                   imageIndex, width, rcCaller, swapChainExtent_, chainAlive,
                   destroyed, swapChainImages_, swapChainImageViews_,
                   swapChainFramebuffers_, capabilities, queueFamilies,
                   gpuVars, winVars, exitCode, histVars>>

QueueNext == FindQueueFamilies \/ IsDeviceSuitable \/ ChooseSharingMode

QueueSpec == QueueInit /\ [][QueueNext]_vars

\* the families of the device that have VK_QUEUE_GRAPHICS_BIT, as indices
\* from 0
GraphicsFamilies ==
    {i \in 0 .. Len(queueFamilies) - 1 : queueFamilies[i + 1].graphics}

\* C36: a result of findQueueFamilies that has both a graphics and a
\* presentation family has them equal, both the first family that does
\* graphics; createSwapChain therefore always takes the exclusive sharing
\* mode and never the concurrent one.
C36_SameFamily ==
    /\ (pc # "findQueueFamilies" /\ indices.graphicsFamily.has_value
            /\ indices.presentationFamily.has_value) =>
          /\ indices.graphicsFamily.value = indices.presentationFamily.value
          /\ indices.graphicsFamily.value \in GraphicsFamilies
          /\ \A i \in GraphicsFamilies : indices.graphicsFamily.value <= i
    /\ createInfo.imageSharingMode # "VK_SHARING_MODE_CONCURRENT"
    /\ pc = "vkCreateSwapchainKHR" =>
          createInfo.imageSharingMode = "VK_SHARING_MODE_EXCLUSIVE"

\* createSwapChain has taken its sharing mode on a device whose first
\* family that can present is not its first family that does graphics
C36_Witness ==
    /\ pc = "vkCreateSwapchainKHR"
    /\ Len(queueFamilies) > 1
    /\ queueFamilies[1].present
    /\ ~queueFamilies[1].graphics
    /\ indices.graphicsFamily.value > 0
    /\ createInfo.imageSharingMode = "VK_SHARING_MODE_EXCLUSIVE"

====
